---- MODULE Spec2Model ----
(***************************************************************************)
(* Model of wbstatus.py: the transaction normalizer                        *)
(* (get_filtered_transactions_for_task), the interval state reducer        *)
(* (build_taskstate_from_transactions) and the loops of main that run      *)
(* them for one task and register the task's actors.                       *)
(*                                                                         *)
(* Python dicts are functions whose DOMAIN is the set of keys present;     *)
(* Python's None is the value None below, and a value is falsy when it is  *)
(* None or the empty string.  Times are small integers: a transaction's    *)
(* dateCreated is a decimal string, as the API returns it, and int() turns *)
(* it into a number.                                                       *)
(***************************************************************************)
EXTENDS Integers, Sequences, FiniteSets, TLC

VARIABLES taskfeed, transactions, phids, taskstate, users, pc

vars == <<taskfeed, transactions, phids, taskstate, users, pc>>

\* ---------------------------------------------------------------- bounds
\* longest transaction log of the task
MaxLen == 3
\* latest creation time of a transaction
MaxTime == 3

\* ------------------------------------------------------------- constants
MWCORETEAM_PHID == "PHID-PROJ-oft3zinwvih7bgdhpfgj"
OTHERTEAM_PHID == "PHID-PROJ-other"

wbstate ==
  [todo |-> "PHID-PCOL-7w2pgpuac4mxaqtjbso3",
   indev |-> "PHID-PCOL-hw5bskuzbvvef2zihx6r",
   feedback |-> "PHID-PCOL-nwvtvi6b6rq32opevo7o",
   archive |-> "PHID-PCOL-vdldqhpp2qukxikpf4zf",
   done |-> "PHID-PCOL-vhdu7nnvhs6c76axdswy"]

\* the report window of main, in the model's time unit
main_start == 1
main_end == 2

\* the one task of the run
tasknum == "T1"

\* ---------------------------------------------------------- Python values
None == "None"

\* bool(v) of a scalar: None and "" are falsy
Truthy(v) == v # None /\ v # ""

EmptyDict == [k \in {} |-> None]

\* d[k] = v
Put(d, k, v) == [x \in (DOMAIN d) \cup {k} |-> IF x = k THEN v ELSE d[x]]

\* d.get(k)
Get(d, k) == IF k \in DOMAIN d THEN d[k] ELSE None

\* int(s) of a decimal string
int(s) == CHOOSE n \in 0..(MaxTime + 1) : ToString(n) = s

\* ------------------------------------------------------ the raw task feed
\* identities
USER_A == "PHID-USER-a"
USER_B == "PHID-USER-b"

\* a status, title, reassign or other scalar-valued transaction, before its
\* creation time is known
ScalarTransaction(type, author, old, new) ==
  [transactionType |-> type, authorPHID |-> author,
   oldValue |-> old, newValue |-> new]

\* a projectcolumn transaction: oldValue.columnPHIDs is a dict (isdict, its
\* values in iteration order) or an empty list; newValue.columnPHIDs is a list
ColumnTransaction(author, project, isdict, oldcolumns, newcolumn) ==
  [transactionType |-> "projectcolumn", authorPHID |-> author,
   oldValue |-> [projectPHID |-> project,
                 columnPHIDs |-> [isdict |-> isdict, values |-> oldcolumns]],
   newValue |-> [projectPHID |-> project, columnPHIDs |-> <<newcolumn>>]]

\* transactions of a task, by what happened
StatusOpened == ScalarTransaction("status", USER_A, None, "open")
StatusResolved == ScalarTransaction("status", USER_A, "open", "resolved")
StatusByNobody == ScalarTransaction("status", None, "open", "resolved")
TitleChanged == ScalarTransaction("title", USER_A, "t1", "t2")
TitleByNobody == ScalarTransaction("title", "", "t1", "t2")
Assigned == ScalarTransaction("reassign", USER_A, None, USER_B)
Unassigned == ScalarTransaction("reassign", USER_B, USER_B, None)
Commented == ScalarTransaction("core:comment", USER_A, None, "text")

Started ==
  ColumnTransaction(USER_A, MWCORETEAM_PHID, FALSE, <<>>, wbstate.indev)
SentForFeedback ==
  ColumnTransaction(USER_B, MWCORETEAM_PHID, TRUE, <<wbstate.indev>>,
                    wbstate.feedback)
Resumed ==
  ColumnTransaction(USER_A, MWCORETEAM_PHID, TRUE,
                    <<wbstate.feedback, wbstate.todo>>, wbstate.indev)
StillWaiting ==
  ColumnTransaction(USER_A, MWCORETEAM_PHID, TRUE, <<wbstate.feedback>>,
                    wbstate.feedback)
Shelved ==
  ColumnTransaction(USER_A, MWCORETEAM_PHID, TRUE, <<wbstate.indev>>,
                    wbstate.todo)
OtherBoardStarted ==
  ColumnTransaction(USER_A, OTHERTEAM_PHID, FALSE, <<>>, wbstate.indev)
OtherBoardFeedback ==
  ColumnTransaction(USER_B, OTHERTEAM_PHID, TRUE, <<wbstate.indev>>,
                    wbstate.feedback)

\* the record with its creation time, as the API returns it
Dated(r, t) ==
  [transactionType |-> r.transactionType, dateCreated |-> ToString(t),
   authorPHID |-> r.authorPHID, oldValue |-> r.oldValue,
   newValue |-> r.newValue]

\* ------------------------------------------------ transaction normalizer
\* relevant, with the column moves of every project kept
relevant_any_project(tact) ==
  \/ tact.transactionType = "status"
  \/ tact.transactionType = "title"
  \/ tact.transactionType = "reassign"
  \/ tact.transactionType = "projectcolumn"

\* the condition under which the loop body keeps the record
relevant(tact) ==
  \/ tact.transactionType = "status"
  \/ tact.transactionType = "title"
  \/ tact.transactionType = "reassign"
  \/ /\ tact.transactionType = "projectcolumn"
     /\ tact.oldValue.projectPHID = MWCORETEAM_PHID

\* the uniform item built from a kept record
uniform(tact) ==
  IF tact.transactionType = "projectcolumn"
  THEN LET oldvalphids == tact.oldValue.columnPHIDs IN
       [transactionType |-> tact.transactionType,
        timestamp |-> int(tact.dateCreated),
        authorPHID |-> tact.authorPHID,
        oldValue |-> IF oldvalphids.isdict THEN oldvalphids.values[1]
                     ELSE None,
        newValue |-> tact.newValue.columnPHIDs[1]]
  ELSE [transactionType |-> tact.transactionType,
        timestamp |-> int(tact.dateCreated),
        authorPHID |-> tact.authorPHID,
        oldValue |-> tact.oldValue,
        newValue |-> tact.newValue]

\* the PHIDs one record adds to the phidstore
added_phids(tact) ==
  {tact.authorPHID}
  \cup (IF tact.transactionType = "reassign"
        THEN {v \in {tact.oldValue, tact.newValue} : Truthy(v)}
        ELSE {})
  \cup (IF relevant(tact) /\ tact.transactionType = "projectcolumn"
        THEN {uniform(tact).newValue}
             \cup (IF tact.oldValue.columnPHIDs.isdict
                   THEN {uniform(tact).oldValue} ELSE {})
        ELSE {})

RECURSIVE get_filtered_transactions_for_task(_)
get_filtered_transactions_for_task(feed) ==
  IF feed = <<>> THEN <<>>
  ELSE LET tact == Head(feed)
           rest == get_filtered_transactions_for_task(Tail(feed))
       IN IF relevant(tact) THEN <<uniform(tact)>> \o rest ELSE rest

RECURSIVE phidstore_after(_, _)
phidstore_after(store, feed) ==
  IF feed = <<>> THEN store
  ELSE phidstore_after(store \cup added_phids(Head(feed)), Tail(feed))

\* ------------------------------------------------ interval state reducer
tmap ==
  [projectcolumn |-> "column", status |-> "status",
   reassign |-> "assignee", title |-> "title"]

Fields == {"column", "status", "assignee", "title"}

\* the task state before the first transaction
initial_taskstate ==
  [k \in Fields \cup {"actorset"} |->
     IF k = "actorset" THEN {} ELSE EmptyDict]

\* field_update, with the end value set only before the window
field_update_end_before_start(state, tact, start) ==
  IF tact.transactionType \in DOMAIN tmap
  THEN LET field == tmap[tact.transactionType]
           slot == state[field]
       IN IF tact.timestamp >= start /\ DOMAIN slot = {}
          THEN Put(state, field, Put(slot, "start", tact.oldValue))
          ELSE IF tact.timestamp < start
               THEN Put(state, field,
                        Put(Put(slot, "start", tact.newValue),
                            "end", tact.newValue))
               ELSE state
  ELSE state

\* field_update, with the start value set by every transaction of the window
field_update_start_overwritten(state, tact, start) ==
  IF tact.transactionType \in DOMAIN tmap
  THEN LET field == tmap[tact.transactionType]
           slot == state[field]
           started ==
             IF tact.timestamp >= start
             THEN Put(slot, "start", tact.oldValue)
             ELSE Put(slot, "start", tact.newValue)
       IN Put(state, field, Put(started, "end", tact.newValue))
  ELSE state

\* the start and end values of the transaction's field
field_update(state, tact, start) ==
  IF tact.transactionType \in DOMAIN tmap
  THEN LET field == tmap[tact.transactionType]
           slot == state[field]
           started ==
             IF tact.timestamp >= start /\ DOMAIN slot = {}
             THEN Put(slot, "start", tact.oldValue)
             ELSE IF tact.timestamp < start
                  THEN Put(slot, "start", tact.newValue)
                  ELSE slot
       IN Put(state, field, Put(started, "end", tact.newValue))
  ELSE state

\* actor_update, with the transactions at start counted
actor_update_from_start(state, tact, start) ==
  IF tact.timestamp >= start /\ Truthy(tact.authorPHID)
  THEN Put(state, "actorset", state["actorset"] \cup {tact.authorPHID})
  ELSE state

\* actor_update, with no look at the author
actor_update_any_author(state, tact, start) ==
  IF tact.timestamp > start
  THEN Put(state, "actorset", state["actorset"] \cup {tact.authorPHID})
  ELSE state

\* the transaction's author joins the actor set
actor_update(state, tact, start) ==
  IF tact.timestamp > start /\ Truthy(tact.authorPHID)
  THEN Put(state, "actorset", state["actorset"] \cup {tact.authorPHID})
  ELSE state

\* milestone_update, with the first entry kept
milestone_update_first_entry(state, tact, key, column) ==
  IF /\ tact.transactionType = "projectcolumn"
     /\ tact.oldValue # column
     /\ tact.newValue = column
     /\ key \notin DOMAIN state
  THEN Put(state, key, tact.timestamp)
  ELSE state

\* milestone_update, with the time dropped when the task leaves the column
milestone_update_cleared_on_leave(state, tact, key, column) ==
  IF /\ tact.transactionType = "projectcolumn"
     /\ tact.oldValue # column
     /\ tact.newValue = column
  THEN Put(state, key, tact.timestamp)
  ELSE IF /\ tact.transactionType = "projectcolumn"
          /\ tact.oldValue = column
          /\ tact.newValue # column
       THEN [k \in (DOMAIN state) \ {key} |-> state[k]]
       ELSE state

\* the time the task entered a workboard column
milestone_update(state, tact, key, column) ==
  IF /\ tact.transactionType = "projectcolumn"
     /\ tact.oldValue # column
     /\ tact.newValue = column
  THEN Put(state, key, tact.timestamp)
  ELSE state

\* one pass of the loop body, for a transaction not after end
transaction_step(state, tact, start) ==
  milestone_update(
    milestone_update(
      actor_update(field_update(state, tact, start), tact, start),
      tact, "waitingsince", wbstate.feedback),
    tact, "workingsince", wbstate.indev)

RECURSIVE transaction_loop(_, _, _, _)
transaction_loop(state, tacts, start, end) ==
  IF tacts = <<>> THEN state
  ELSE IF Head(tacts).timestamp > end THEN state
       ELSE transaction_loop(transaction_step(state, Head(tacts), start),
                             Tail(tacts), start, end)

\* assignee_update, with no look at the end value
assignee_update_any_value(state) ==
  IF DOMAIN state["assignee"] # {}
  THEN Put(state, "actorset",
           state["actorset"] \cup {state["assignee"]["end"]})
  ELSE state

\* the current assignee joins the actor set
assignee_update(state) ==
  IF DOMAIN state["assignee"] # {} /\ Truthy(state["assignee"]["end"])
  THEN Put(state, "actorset",
           state["actorset"] \cup {state["assignee"]["end"]})
  ELSE state

build_taskstate_from_transactions(tacts, start, end) ==
  assignee_update(transaction_loop(initial_taskstate, tacts, start, end))

\* ------------------------------------------------------------- renderer
\* the keys of the task state that render_actor reads for the lines "Still
\* working on it" and "Waiting for feedback since"
dwell_lookups(state, actorphid) ==
  LET assignee == state["assignee"]
      column == state["column"]
  IN (IF /\ Get(column, "start") = wbstate.indev
         /\ wbstate.indev = column["end"]
         /\ Get(assignee, "end") = actorphid
      THEN {"workingsince"} ELSE {})
     \cup
     (IF /\ wbstate.feedback = Get(column, "end")
         /\ Get(assignee, "end") = actorphid
      THEN {"waitingsince"} ELSE {})

\* ------------------------------------------------------------------ main
\* PhidStore.get_user(phid).tasks.append(task) for every phid of actors
RegisterActors(registry, actors, task) ==
  [p \in (DOMAIN registry) \cup actors |->
     IF p \in actors
     THEN (IF p \in DOMAIN registry THEN registry[p] ELSE <<>>) \o <<task>>
     ELSE registry[p]]

Init ==
  /\ taskfeed = <<>>
  /\ transactions = EmptyDict
  /\ phids = {}
  /\ taskstate = EmptyDict
  /\ users = EmptyDict
  /\ pc = "fetch"

\* the tracker records one more transaction of the task, not earlier than
\* the last one
RecordTransaction(r) ==
  /\ pc = "fetch"
  /\ Len(taskfeed) < MaxLen
  /\ \E t \in 1..MaxTime :
       /\ taskfeed # <<>> => int(taskfeed[Len(taskfeed)].dateCreated) <= t
       /\ taskfeed' = Append(taskfeed, Dated(r, t))
  /\ UNCHANGED <<transactions, phids, taskstate, users, pc>>

\* main's first loop: the feed of the task is filtered
FilterTransactions ==
  /\ pc = "fetch"
  /\ transactions' =
       Put(transactions, tasknum, get_filtered_transactions_for_task(taskfeed))
  /\ phids' = phidstore_after(phids, taskfeed)
  /\ pc' = "filtered"
  /\ UNCHANGED <<taskfeed, taskstate, users>>

\* main's second loop: the state of the task is built and its actors are
\* registered; a falsy actor fails the assertion, after any of the others
\* were registered
BuildTaskstate ==
  /\ pc = "filtered"
  /\ LET state == build_taskstate_from_transactions(
                    transactions[tasknum], main_start, main_end)
         actors == state["actorset"]
     IN /\ taskstate' = Put(taskstate, tasknum, state)
        /\ IF \A a \in actors : Truthy(a)
           THEN /\ users' = RegisterActors(users, actors, tasknum)
                /\ pc' = "built"
           ELSE /\ \E done \in SUBSET {a \in actors : Truthy(a)} :
                     users' = RegisterActors(users, done, tasknum)
                /\ pc' = "AssertionError"
  /\ UNCHANGED <<taskfeed, transactions, phids>>

\* A task whose fields change: status, title, assignee and column.
Next ==
  \/ \E r \in {StatusOpened, StatusResolved, TitleChanged, Assigned} :
       RecordTransaction(r)
  \/ \E r \in {Started, SentForFeedback} : RecordTransaction(r)
  \/ FilterTransactions
  \/ BuildTaskstate

Spec == Init /\ [][Next]_vars

\* A task with transactions that have no author, assigned and unassigned.
NextActors ==
  \/ \E r \in {StatusByNobody, TitleByNobody, Assigned, Unassigned} :
       RecordTransaction(r)
  \/ \E r \in {Started, SentForFeedback} : RecordTransaction(r)
  \/ FilterTransactions
  \/ BuildTaskstate

SpecActors == Init /\ [][NextActors]_vars

\* A task that moves between the columns of the team's workboard.
NextBoard ==
  \/ \E r \in {Assigned} : RecordTransaction(r)
  \/ \E r \in {Started, SentForFeedback, Resumed, StillWaiting, Shelved} :
       RecordTransaction(r)
  \/ FilterTransactions
  \/ BuildTaskstate

SpecBoard == Init /\ [][NextBoard]_vars

\* A task with comments and with moves on the workboard of another project.
NextFeed ==
  \/ \E r \in {StatusOpened, TitleChanged, Assigned, Commented} :
       RecordTransaction(r)
  \/ \E r \in {Started, OtherBoardStarted, OtherBoardFeedback} :
       RecordTransaction(r)
  \/ FilterTransactions
  \/ BuildTaskstate

SpecFeed == Init /\ [][NextFeed]_vars

\* ------------------------------------------------------- claim vocabulary
\* The properties of the reducer are stated of the filtered transactions, for
\* every window; they are evaluated where the transactions have just been
\* filtered (pc = "filtered"), the transactions staying the same afterwards.
\* the filtered transactions of the task, once main has filtered them
Tacts == IF tasknum \in DOMAIN transactions THEN transactions[tasknum] ELSE <<>>

Times == 1..(MaxTime + 1)

Windows == {w \in Times \X Times : w[1] < w[2]}

State(w) == build_taskstate_from_transactions(Tacts, w[1], w[2])

\* positions of the transactions of a field
OfField(field) ==
  {i \in 1..Len(Tacts) :
     /\ Tacts[i].transactionType \in DOMAIN tmap
     /\ tmap[Tacts[i].transactionType] = field}

Last(S) == CHOOSE i \in S : \A j \in S : j <= i
First(S) == CHOOSE i \in S : \A j \in S : i <= j

\* C1: for every window and tracked field, the end value is the new value of
\* the last transaction of the field not after end, and the slot has no end
\* value when there is none.
EndValueRecency ==
  pc = "filtered" =>
  \A w \in Windows :
    LET state == State(w) IN
    \A f \in Fields :
      LET S == {i \in OfField(f) : Tacts[i].timestamp <= w[2]} IN
      IF S = {} THEN "end" \notin DOMAIN state[f]
      ELSE /\ "end" \in DOMAIN state[f]
           /\ state[f]["end"] = Tacts[Last(S)].newValue

\* C1 witness: two changes of one field to different values lie in a window,
\* a third lies after it, and the end value is the second one's.
EndValueRecencyWitness ==
  /\ pc = "filtered"
  /\ \E w \in Windows : \E f \in Fields : \E i, j, k \in OfField(f) :
       /\ i < j /\ j < k
       /\ Tacts[j].timestamp <= w[2] /\ Tacts[k].timestamp > w[2]
       /\ Tacts[i].newValue # Tacts[j].newValue
       /\ Tacts[k].newValue # Tacts[j].newValue
       /\ State(w)[f]["end"] = Tacts[j].newValue

\* C2: for every window and tracked field, the start value is the new value
\* of the last transaction of the field before start; without one, the old
\* value of the first transaction of the field from start to end; without
\* that either, the slot has no start value.
StartValueLastBeforeStart ==
  pc = "filtered" =>
  \A w \in Windows :
    LET state == State(w) IN
    \A f \in Fields :
      LET Before == {i \in OfField(f) : Tacts[i].timestamp < w[1]}
          Within == {i \in OfField(f) : /\ Tacts[i].timestamp >= w[1]
                                        /\ Tacts[i].timestamp <= w[2]}
      IN IF Before # {}
         THEN /\ "start" \in DOMAIN state[f]
              /\ state[f]["start"] = Tacts[Last(Before)].newValue
         ELSE IF Within # {}
              THEN /\ "start" \in DOMAIN state[f]
                   /\ state[f]["start"] = Tacts[First(Within)].oldValue
              ELSE "start" \notin DOMAIN state[f]

\* C2 witness: two changes of one field before start and one in the window,
\* with three different candidates for the start value.
StartValueLastBeforeStartWitness ==
  /\ pc = "filtered"
  /\ \E w \in Windows : \E f \in Fields : \E i, j, k \in OfField(f) :
       /\ Tacts[i].timestamp < Tacts[j].timestamp
       /\ Tacts[j].timestamp < w[1]
       /\ Tacts[k].timestamp >= w[1] /\ Tacts[k].timestamp <= w[2]
       /\ Tacts[i].newValue # Tacts[j].newValue
       /\ Tacts[k].oldValue # Tacts[j].newValue
       /\ State(w)[f]["start"] = Tacts[j].newValue

\* the assignee at a time, read off the log
AssigneeAt(t) ==
  LET S == {i \in OfField("assignee") : Tacts[i].timestamp <= t} IN
  IF S = {} THEN None ELSE Tacts[Last(S)].newValue

\* C3: for every window, the actor set is the set of the non-empty authors
\* of the transactions after start and not after end, and the assignee at
\* end when there is one.
ActorSetExclusiveStart ==
  pc = "filtered" =>
  \A w \in Windows :
    State(w)["actorset"] =
      {Tacts[i].authorPHID : i \in
         {j \in 1..Len(Tacts) : /\ Tacts[j].timestamp > w[1]
                                /\ Tacts[j].timestamp <= w[2]
                                /\ Truthy(Tacts[j].authorPHID)}}
      \cup {a \in {AssigneeAt(w[2])} : Truthy(a)}

\* C3 witness: in one window the author of a transaction at start is left
\* out and the author of one at start + 1 is in; in another no transaction
\* lies after start and the assignee alone is in the actor set.
ActorSetExclusiveStartWitness ==
  /\ pc = "filtered"
  /\ \E w \in Windows : \E i, j \in 1..Len(Tacts) :
       /\ Tacts[i].timestamp = w[1]
       /\ Truthy(Tacts[i].authorPHID)
       /\ Tacts[i].authorPHID \notin State(w)["actorset"]
       /\ Tacts[j].timestamp = w[1] + 1
       /\ Tacts[j].authorPHID \in State(w)["actorset"]
  /\ \E w \in Windows :
       /\ \A k \in 1..Len(Tacts) : Tacts[k].timestamp <= w[1]
       /\ Truthy(AssigneeAt(w[2]))
       /\ State(w)["actorset"] = {AssigneeAt(w[2])}

\* the milestones of the reducer: the key of the task state and the column
Milestones ==
  {<<"waitingsince", wbstate.feedback>>, <<"workingsince", wbstate.indev>>}

\* positions of the moves into a column, not after a time
Entries(column, t) ==
  {i \in OfField("column") : /\ Tacts[i].newValue = column
                             /\ Tacts[i].oldValue # column
                             /\ Tacts[i].timestamp <= t}

\* C4, as claimed: the milestone time is that of the last move into the
\* column in the whole log, wherever start and end lie.
MilestoneLastEntryWholeLog ==
  pc = "filtered" =>
  \A w \in Windows :
    LET state == State(w) IN
    \A m \in Milestones :
      LET S == Entries(m[2], MaxTime + 1) IN
      S # {} => /\ m[1] \in DOMAIN state
                /\ state[m[1]] = Tacts[Last(S)].timestamp

\* C4, amended: the milestone time is that of the last move into the column
\* among the transactions not after end; moves before start count, moves
\* after end do not.
MilestoneLastEntryUpToEnd ==
  pc = "filtered" =>
  \A w \in Windows :
    LET state == State(w) IN
    \A m \in Milestones :
      LET S == Entries(m[2], w[2]) IN
      S # {} => /\ m[1] \in DOMAIN state
                /\ state[m[1]] = Tacts[Last(S)].timestamp

\* C4 witness: the task enters a column not after start, again later in the
\* window and once more after end; the time recorded is the second one.
MilestoneLastEntryUpToEndWitness ==
  /\ pc = "filtered"
  /\ \E w \in Windows : \E m \in Milestones :
       \E i, j \in Entries(m[2], w[2]) : \E k \in Entries(m[2], MaxTime + 1) :
         /\ Tacts[i].timestamp <= w[1]
         /\ Tacts[i].timestamp < Tacts[j].timestamp
         /\ Tacts[k].timestamp > w[2]
         /\ State(w)[m[1]] = Tacts[j].timestamp

\* positions of the moves into or out of a column, not after a time
Concerning(column, t) ==
  {i \in OfField("column") : /\ (Tacts[i].newValue = column) #
                                (Tacts[i].oldValue = column)
                             /\ Tacts[i].timestamp <= t}

\* C5, as claimed: the milestone time is absent when the task never entered
\* the column, and when its last move concerning the column left it.
MilestoneAbsentAfterLeaving ==
  pc = "filtered" =>
  \A w \in Windows :
    LET state == State(w) IN
    \A m \in Milestones :
      LET S == Concerning(m[2], w[2]) IN
      /\ Entries(m[2], w[2]) = {} => m[1] \notin DOMAIN state
      /\ (S # {} /\ Tacts[Last(S)].oldValue = m[2]) => m[1] \notin DOMAIN state

\* C5, amended: the milestone time is absent exactly when no transaction not
\* after end moved the task into the column; once recorded it stays, also
\* after the task has left the column.
MilestoneAbsentIffNeverEntered ==
  pc = "filtered" =>
  \A w \in Windows :
    LET state == State(w) IN
    \A m \in Milestones :
      (m[1] \notin DOMAIN state) <=> (Entries(m[2], w[2]) = {})

\* C5 witness: the task entered a column and then left it, and the time of
\* the entry is still recorded, while the other milestone is absent.
MilestoneAbsentIffNeverEnteredWitness ==
  /\ pc = "filtered"
  /\ \E w \in Windows : \E m, n \in Milestones :
       LET S == Concerning(m[2], w[2]) IN
       /\ S # {} /\ Tacts[Last(S)].oldValue = m[2]
       /\ Entries(m[2], w[2]) # {}
       /\ m[1] \in DOMAIN State(w)
       /\ Entries(n[2], w[2]) = {}
       /\ n[1] \notin DOMAIN State(w)
       /\ Tacts # <<>>

\* positions of the records of the feed that are of a tracked kind, a column
\* move counting only on the team's project
Kept ==
  {i \in 1..Len(taskfeed) :
     \/ taskfeed[i].transactionType \in {"status", "title", "reassign"}
     \/ /\ taskfeed[i].transactionType = "projectcolumn"
        /\ taskfeed[i].oldValue.projectPHID = MWCORETEAM_PHID}

\* the position in the feed of the n-th kept record
KeptAt(n) == CHOOSE i \in Kept : Cardinality({j \in Kept : j <= i}) = n

\* C6: the filtered transactions are the kept records of the feed, one for
\* one and in the order of the feed; no other record is among them.
NormalizerFilterAndOrder ==
  pc # "fetch" =>
    /\ Len(Tacts) = Cardinality(Kept)
    /\ \A n \in 1..Len(Tacts) :
         /\ Tacts[n].transactionType = taskfeed[KeptAt(n)].transactionType
         /\ ToString(Tacts[n].timestamp) = taskfeed[KeptAt(n)].dateCreated
         /\ Tacts[n].authorPHID = taskfeed[KeptAt(n)].authorPHID
    /\ \A n \in 1..Len(Tacts) :
         Tacts[n].transactionType = "projectcolumn" =>
           /\ taskfeed[KeptAt(n)].oldValue.projectPHID = MWCORETEAM_PHID
           /\ taskfeed[KeptAt(n)].newValue.columnPHIDs[1] = Tacts[n].newValue

\* C6 witness: a feed with a move on another project's board between two
\* kept records of different kinds has been filtered.
NormalizerFilterAndOrderWitness ==
  /\ pc = "filtered"
  /\ Len(Tacts) = 2
  /\ Tacts[1].transactionType # Tacts[2].transactionType
  /\ Len(taskfeed) = 3
  /\ taskfeed[2].transactionType = "projectcolumn"
  /\ 2 \notin Kept

\* a transaction of main's window, after start, has an empty author
EmptyActorInWindow ==
  \E i \in 1..Len(Tacts) : /\ Tacts[i].timestamp > main_start
                           /\ Tacts[i].timestamp <= main_end
                           /\ ~Truthy(Tacts[i].authorPHID)

\* C7, as claimed: a transaction after start with an empty author is fatal to
\* the task: an error is signalled and no task state is returned.
EmptyActorIsFatal ==
  (pc \in {"built", "AssertionError"} /\ EmptyActorInWindow) =>
    (pc = "AssertionError" /\ tasknum \notin DOMAIN taskstate)

\* C7, amended: a transaction after start with an empty author signals
\* nothing; its author is left out of the actor set, its field change is
\* recorded and the task state is returned.
EmptyActorIsSkipped ==
  (pc \in {"built", "AssertionError"} /\ EmptyActorInWindow) =>
    /\ pc = "built"
    /\ tasknum \in DOMAIN taskstate
    /\ \A i \in 1..Len(Tacts) :
         (/\ Tacts[i].timestamp > main_start
          /\ Tacts[i].timestamp <= main_end
          /\ ~Truthy(Tacts[i].authorPHID)) =>
           /\ Tacts[i].authorPHID \notin taskstate[tasknum]["actorset"]
           /\ "end" \in DOMAIN taskstate[tasknum][tmap[Tacts[i].transactionType]]

\* C7 witness: the state of a task was built from a window with an authorless
\* transaction and with an authored one.
EmptyActorIsSkippedWitness ==
  /\ pc = "built"
  /\ EmptyActorInWindow
  /\ \E i \in 1..Len(Tacts) :
       /\ Tacts[i].timestamp > main_start
       /\ Tacts[i].timestamp <= main_end
       /\ Tacts[i].authorPHID \in taskstate[tasknum]["actorset"]

\* C8: whenever the column's end value is the feedback column the task state
\* has waitingsince, whenever its start and end values are both the indev
\* column it has workingsince, and so render_actor reads no missing key.
DwellTimestampsDefined ==
  pc = "filtered" =>
  \A w \in Windows :
    LET state == State(w) IN
    /\ Get(state["column"], "end") = wbstate.feedback
         => "waitingsince" \in DOMAIN state
    /\ (/\ Get(state["column"], "start") = wbstate.indev
        /\ Get(state["column"], "end") = wbstate.indev)
         => "workingsince" \in DOMAIN state
    /\ \A a \in state["actorset"] : dwell_lookups(state, a) \subseteq DOMAIN state

\* every transaction's old value is the new value of the one before it of
\* the same field, the first old value being empty
ChainConsistent ==
  \A f \in Fields : \A i \in OfField(f) :
    LET P == {j \in OfField(f) : j < i} IN
    Tacts[i].oldValue = IF P = {} THEN None ELSE Tacts[Last(P)].newValue

\* C9: for a chain-consistent log and a < b < c, every field's end value for
\* the window (a, b) is its start value for the window (b, c).
ContinuityAcrossWindows ==
  (pc = "filtered" /\ ChainConsistent) =>
    \A a, b, c \in Times :
      (a < b /\ b < c) =>
        \A f \in Fields :
          Get(State(<<a, b>>)[f], "end") = Get(State(<<b, c>>)[f], "start")

\* C10: no actor set holds an empty identity, main's assertion never fails
\* and no user is registered under an empty identity.
NoEmptyActorRegistered ==
  /\ pc = "filtered" =>
       \A w \in Windows : \A a \in State(w)["actorset"] : Truthy(a)
  /\ pc # "AssertionError"
  /\ \A p \in DOMAIN users : Truthy(p)

\* C10 witness: the actors of a task were registered although a transaction
\* of the window has no author and the task ends the window unassigned.
NoEmptyActorRegisteredWitness ==
  /\ pc = "built"
  /\ EmptyActorInWindow
  /\ OfField("assignee") # {}
  /\ ~Truthy(AssigneeAt(main_end))
  /\ DOMAIN users # {}

====
